---- MODULE Spec2Model ----
(***************************************************************************)
(* Model of main_sync_script.py: the save-file synchroniser between the    *)
(* card saves directory (<title>.gba.sav) and the local saves directory    *)
(* (<title>.srm).                                                          *)
(*                                                                         *)
(* File names are sequences of one-character strings, so that splitext,    *)
(* lower and startswith are computed character by character as Python      *)
(* computes them.  Modification times are counted in ticks of              *)
(* 1/TicksPerSecond second (the code's times are floats in seconds).       *)
(***************************************************************************)
EXTENDS Integers, Sequences, FiniteSets, TLC

\* ------------------------------------------------------------------------
\* Bounds of the model
\* ------------------------------------------------------------------------
\* Time resolution: ticks per second (2: the half second of "100 vs 100.5").
TicksPerSecond == 2
\* Largest number of entries in the two directories together, initially.
MaxFiles == 2
\* Largest number of entries of a directory scanned on its own.
MaxScanFiles == 2
\* Largest number of entries in the two directories of a comparison on its own.
MaxCmpFiles == 2
\* Largest initial modification time, in ticks.
MaxInitTime == 3
\* Largest clock value, in ticks.
MaxTime == 6
\* Number of times the operator runs the program.
MaxRuns == 2

\* ------------------------------------------------------------------------
\* Strings
\* ------------------------------------------------------------------------
\* str.lower() on one character (ASCII letters of the model's alphabet).
LowerChar(c) ==
    CASE c = "A" -> "a"
      [] c = "B" -> "b"
      [] c = "G" -> "g"
      [] c = "M" -> "m"
      [] c = "R" -> "r"
      [] c = "S" -> "s"
      [] c = "V" -> "v"
      [] OTHER -> c

\* str.lower()
Lower(s) == [i \in 1..Len(s) |-> LowerChar(s[i])]

\* The code point of a character: Python orders strings by code point.
Ord(c) ==
    CASE c = "." -> 46
      [] c = "A" -> 65
      [] c = "B" -> 66
      [] c = "G" -> 71
      [] c = "M" -> 77
      [] c = "R" -> 82
      [] c = "S" -> 83
      [] c = "V" -> 86
      [] c = "_" -> 95
      [] c = "a" -> 97
      [] c = "b" -> 98
      [] c = "g" -> 103
      [] c = "m" -> 109
      [] c = "r" -> 114
      [] c = "s" -> 115
      [] c = "t" -> 116
      [] c = "v" -> 118
      [] c = "x" -> 120
      [] OTHER -> 127

\* s < t for Python strings: lexicographic by code point, a proper prefix first.
StrLess(s, t) ==
    \E i \in 1..(Len(t)) :
        /\ \A j \in 1..(i - 1) : j <= Len(s) /\ s[j] = t[j]
        /\ \/ i = Len(s) + 1
           \/ i <= Len(s) /\ Ord(s[i]) < Ord(t[i])

\* str.startswith(prefix)
StartsWith(s, prefix) ==
    /\ Len(s) >= Len(prefix)
    /\ SubSeq(s, 1, Len(prefix)) = prefix

\* str.endswith(suffix)
EndsWith(s, suffix) ==
    /\ Len(s) >= Len(suffix)
    /\ SubSeq(s, Len(s) - Len(suffix) + 1, Len(s)) = suffix

\* Index of the last "." of s, 0 when there is none.
LastDot(s) ==
    IF \E i \in 1..Len(s) : s[i] = "."
    THEN CHOOSE i \in 1..Len(s) :
            /\ s[i] = "."
            /\ \A j \in (i + 1)..Len(s) : s[j] # "."
    ELSE 0

\* os.path.splitext on a file name without separators: the extension starts
\* at the last dot, unless only dots precede it (leading dots are no
\* extension); <<root, ext>>.
splitext(p) ==
    LET d == LastDot(p)
    IN  IF d > 0 /\ \E i \in 1..(d - 1) : p[i] # "."
        THEN <<SubSeq(p, 1, d - 1), SubSeq(p, d, Len(p))>>
        ELSE <<p, <<>>>>

DotSav == <<".", "s", "a", "v">>
DotSrm == <<".", "s", "r", "m">>
DotGba == <<".", "g", "b", "a">>
MetaPrefix == <<".", "_">>

\* ------------------------------------------------------------------------
\* Directories and paths
\* ------------------------------------------------------------------------
\* A directory is [exists, files]; files maps each entry's name to
\* [mtime, kind], kind "file" (a regular file), "dir" (os.path.isfile is
\* false) or "nostat" (a regular file whose getmtime raises OSError).
SD_CARD_SAVES_PATH == "sd"
LOCAL_SAVES_PATH == "local"

EmptyDict == [k \in {} |-> k]

\* dict[k] = v
Put(d, k, v) == [x \in (DOMAIN d) \cup {k} |-> IF x = k THEN v ELSE d[x]]

\* os.path.join(directory, filename)
join(directory, filename) == [dir |-> directory, name |-> filename]

\* os.path.basename(path)
basename(path) == path.name

\* ------------------------------------------------------------------------
\* get_file_info
\* ------------------------------------------------------------------------
\* The test "actual_ext.lower() not in [e.lower() for e in extensions]",
\* skipped when extensions is None or empty.
ExtensionWanted(actual_ext, extensions) ==
    \/ extensions = <<>>
    \/ \E i \in 1..Len(extensions) : Lower(actual_ext) = Lower(extensions[i])

\* The 'true' base name of a file name: the name without its extension, and
\* without a trailing ".gba" when the extension is ".sav".
TrueBasename(filename) ==
    LET name_part_before_ext == splitext(filename)[1]
        actual_ext == splitext(filename)[2]
    IN  IF Lower(actual_ext) = DotSav /\ EndsWith(Lower(name_part_before_ext), DotGba)
        THEN splitext(name_part_before_ext)[1]
        ELSE name_part_before_ext

\* ScanOne without the test for names starting with "._".
ScanOne_NoMetaTest(files_info, directory_path, dir, extensions, filename) ==
    LET actual_ext == splitext(filename)[2]
        full_path == join(directory_path, filename)
    IN  IF ~ExtensionWanted(actual_ext, extensions) THEN files_info
        ELSE IF dir.files[filename].kind = "file"
             THEN Put(files_info, Lower(TrueBasename(filename)),
                      [path |-> full_path,
                       mtime |-> dir.files[filename].mtime,
                       ext |-> Lower(actual_ext)])
        ELSE files_info

\* One iteration of the loop over os.listdir: files_info after `filename`.
ScanOne(files_info, directory_path, dir, extensions, filename) ==
    LET actual_ext == splitext(filename)[2]
        full_path == join(directory_path, filename)
    IN  IF StartsWith(filename, MetaPrefix) THEN files_info
        ELSE IF ~ExtensionWanted(actual_ext, extensions) THEN files_info
        ELSE IF dir.files[filename].kind = "file"
             THEN Put(files_info, Lower(TrueBasename(filename)),
                      [path |-> full_path,
                       mtime |-> dir.files[filename].mtime,
                       ext |-> Lower(actual_ext)])
        ELSE files_info

RECURSIVE ScanLoop(_, _, _, _, _, _)
ScanLoop(files_info, directory_path, dir, extensions, listing, i) ==
    IF i > Len(listing) THEN files_info
    ELSE ScanLoop(ScanOne(files_info, directory_path, dir, extensions, listing[i]),
                  directory_path, dir, extensions, listing, i + 1)

\* get_file_info(directory_path, extensions) on directory `dir`, os.listdir
\* returning the names in the order `listing`.
get_file_info(directory_path, dir, extensions, listing) ==
    IF ~dir.exists THEN EmptyDict
    ELSE ScanLoop(EmptyDict, directory_path, dir, extensions, listing, 1)

\* The orders in which os.listdir may return the names of S.
Listings(S) ==
    {f \in [1..Cardinality(S) -> S] : \A i, j \in 1..Cardinality(S) : f[i] = f[j] => i = j}

\* ------------------------------------------------------------------------
\* compare_folders
\* ------------------------------------------------------------------------
\* sorted(...) of a set of strings.
RECURSIVE Sorted(_)
Sorted(S) ==
    IF S = {} THEN <<>>
    ELSE LET m == CHOOSE x \in S : \A y \in S \ {x} : StrLess(x, y)
         IN  <<m>> \o Sorted(S \ {m})

\* The tolerance of the mtime comparison: 1.0 second.
Tolerance == 1 * TicksPerSecond

Abs(x) == IF x < 0 THEN -x ELSE x

\* IsConflict with the extensions left out of the test.
IsConflict_MtimeOnly(sd_file, local_file) ==
    Abs(sd_file.mtime - local_file.mtime) > Tolerance

\* IsConflict with ">= 1.0" for "> 1.0".
IsConflict_AtLeast(sd_file, local_file) ==
    \/ Abs(sd_file.mtime - local_file.mtime) >= Tolerance
    \/ sd_file.ext # local_file.ext

\* IsConflict without abs(): only a newer card file is a conflict.
IsConflict_NoAbs(sd_file, local_file) ==
    \/ sd_file.mtime - local_file.mtime > Tolerance
    \/ sd_file.ext # local_file.ext

\* The conflict test of a key present in both snapshots.
IsConflict(sd_file, local_file) ==
    \/ Abs(sd_file.mtime - local_file.mtime) > Tolerance
    \/ sd_file.ext # local_file.ext

\* One iteration of the loop over all_basenames.
CompareOne(differences, sd_info, local_info, bn) ==
    IF bn \in DOMAIN sd_info /\ bn \notin DOMAIN local_info
    THEN [differences EXCEPT !.sd_only = Append(@, sd_info[bn])]
    ELSE IF bn \notin DOMAIN sd_info /\ bn \in DOMAIN local_info
    THEN [differences EXCEPT !.local_only = Append(@, local_info[bn])]
    ELSE IF bn \in DOMAIN sd_info /\ bn \in DOMAIN local_info
            /\ IsConflict(sd_info[bn], local_info[bn])
    THEN [differences EXCEPT !.conflicts =
              Append(@, [basename |-> bn, sd |-> sd_info[bn], local |-> local_info[bn]])]
    ELSE differences

RECURSIVE CompareLoop(_, _, _, _, _)
CompareLoop(differences, sd_info, local_info, all_basenames, i) ==
    IF i > Len(all_basenames) THEN differences
    ELSE CompareLoop(CompareOne(differences, sd_info, local_info, all_basenames[i]),
                     sd_info, local_info, all_basenames, i + 1)

NoDifferences == [sd_only |-> <<>>, local_only |-> <<>>, conflicts |-> <<>>]

compare_folders(sd_info, local_info) ==
    CompareLoop(NoDifferences, sd_info, local_info,
                Sorted((DOMAIN sd_info) \cup (DOMAIN local_info)), 1)

\* has_diff of print_differences: any(sd_only or local_only or conflicts); the
\* entries are non-empty dicts, so it is true when some list is non-empty.
print_differences(differences) ==
    \/ differences.sd_only # <<>>
    \/ differences.local_only # <<>>
    \/ differences.conflicts # <<>>

\* ------------------------------------------------------------------------
\* _run_conversion_script
\* ------------------------------------------------------------------------
\* What one call can meet: "ok" (exit status 0, output written), "notfound"
\* (script missing or not a file: FileNotFoundError), "launch" (subprocess.run
\* raises), "exit1" (non-zero exit status, nothing written), "exit1_partial"
\* (non-zero exit status, output left behind).
ConversionResults == {"ok", "notfound", "launch", "exit1", "exit1_partial"}

\* The call raises an exception (every kind is an Exception).
Raises(result) == result # "ok"

\* The tool leaves a file at output_path.
Writes(result) == result \in {"ok", "exit1_partial"}

\* The tool cannot write a file where a directory of that name stands.
CanMeet(files, output_path, result) ==
    Writes(result) =>
        ~(/\ output_path.name \in DOMAIN files[output_path.dir].files
          /\ files[output_path.dir].files[output_path.name].kind = "dir")

\* The file system after _run_conversion_script(script, input, output_path)
\* met `result` at time `now`. A missing script raises before anything is
\* touched; otherwise the directory of output_path is created when missing
\* (os.makedirs) before the tool is launched, whatever the tool then does.
run_conversion_script(files, output_path, result, now) ==
    IF result = "notfound"
    THEN files
    ELSE LET made == [files EXCEPT ![output_path.dir].exists = TRUE]
         IN  IF Writes(result)
             THEN [made EXCEPT ![output_path.dir].files =
                       Put(@, output_path.name, [mtime |-> now, kind |-> "file"])]
             ELSE made

\* ------------------------------------------------------------------------
\* Target paths and conflict decisions of the two sync operations
\* ------------------------------------------------------------------------
\* S2LOnlyTarget with one splitext only: ".gba" stays in the name.
S2LOnlyTarget_KeepGba(sd_file) ==
    join(LOCAL_SAVES_PATH, splitext(basename(sd_file.path))[1] \o DotSrm)

\* sync_sd_to_local, loop over sd_only.
S2LOnlyTarget(sd_file) ==
    join(LOCAL_SAVES_PATH, splitext(splitext(basename(sd_file.path))[1])[1] \o DotSrm)

\* sync_sd_to_local, loop over conflicts.
S2LConflictTarget(conflict) ==
    join(LOCAL_SAVES_PATH, conflict.basename \o DotSrm)

\* sync_local_to_sd, loop over local_only.
L2SOnlyTarget(local_file) ==
    join(SD_CARD_SAVES_PATH, splitext(basename(local_file.path))[1] \o DotGba \o DotSav)

\* sync_local_to_sd, loop over conflicts.
L2SConflictTarget(conflict) ==
    join(SD_CARD_SAVES_PATH, conflict.basename \o DotGba \o DotSav)

\* S2LConverts with the tolerance applied: newer by more than 1.0 second.
S2LConverts_Beyond(conflict) == conflict.sd.mtime - conflict.local.mtime > Tolerance

\* if sd_file['mtime'] > local_file['mtime']
S2LConverts(conflict) == conflict.sd.mtime > conflict.local.mtime

\* L2SConverts with the test of sync_sd_to_local copied unchanged.
L2SConverts_Copied(conflict) == conflict.sd.mtime > conflict.local.mtime

\* if local_file['mtime'] > sd_file['mtime']
L2SConverts(conflict) == conflict.local.mtime > conflict.sd.mtime

\* The elif of both operations: .sav on the card, .srm locally, similar mtimes.
SimilarPair(conflict) ==
    /\ conflict.sd.ext = DotSav
    /\ conflict.local.ext = DotSrm
    /\ Abs(conflict.sd.mtime - conflict.local.mtime) <= Tolerance

\* What an iteration over a conflict comes to, given what its conversion met.
ConflictOutcome(converts, conflict, result) ==
    IF converts THEN (IF Raises(result) THEN "failed" ELSE "converted")
    ELSE IF SimilarPair(conflict) THEN "skipped_similar"
    ELSE "skipped_other"

\* ------------------------------------------------------------------------
\* State
\* ------------------------------------------------------------------------
VARIABLES
    fs,               \* the two saves directories: fs["sd"], fs["local"]
    scripts_dir,      \* whether the directory of the conversion scripts exists
    clock,            \* the current time, in ticks
    pc,               \* where the program is: "start", "prompt", "sync", or exited
    sd_info,          \* main's snapshot of the card directory
    local_info,       \* main's snapshot of the local directory
    differences,      \* main's DifferenceSet
    direction,        \* the sync operation running: "s2l", "l2s" or "none"
    phase,            \* the loop it is in: "only", "conflicts" or "none"
    idx,              \* the index of the next item of that loop
    processed_count,  \* the operation's processed_count
    calls,            \* the calls of _run_conversion_script made by the operation
    outcomes,         \* what each visited item came to, in order
    history,          \* what the earlier runs of the program did
    arg,              \* a function called on its own: its arguments
    ret               \* and its result

vars == <<fs, scripts_dir, clock, pc, sd_info, local_info, differences, direction, phase, idx,
          processed_count, calls, outcomes, history, arg, ret>>

runVars == <<sd_info, local_info, differences, direction, phase, idx,
             processed_count, calls, outcomes>>

fnVars == <<arg, ret>>

\* ------------------------------------------------------------------------
\* The directory contents the model starts from
\* ------------------------------------------------------------------------
Name_a_gba_sav == <<"a">> \o DotGba \o DotSav
Name_A_gba_sav == <<"A">> \o DotGba \o DotSav
Name_a_sav == <<"a">> \o DotSav
Name_a_b_sav == <<"a", ".", "b">> \o DotSav
Name_a_b_gba_sav == <<"a", ".", "b">> \o DotGba \o DotSav
Name_b_GBA_SAV == <<"b", ".", "G", "B", "A", ".", "S", "A", "V">>
Name_meta_a_sav == MetaPrefix \o <<"a">> \o DotSav
Name_x_gba_sav == <<"x">> \o DotGba \o DotSav
Name_a_srm == <<"a">> \o DotSrm
Name_A_SRM == <<"A", ".", "S", "R", "M">>
Name_b_srm == <<"b">> \o DotSrm
Name_a_b_srm == <<"a", ".", "b">> \o DotSrm
Name_meta_a_srm == MetaPrefix \o <<"a">> \o DotSrm
Name_x_srm == <<"x">> \o DotSrm
Name_a_txt == <<"a", ".", "t", "x", "t">>
Name_dot_sav == DotSav

\* Entries the card directory may hold.
SdPool ==
    { [side |-> "sd", name |-> Name_a_gba_sav, kind |-> "file"],
      [side |-> "sd", name |-> Name_A_gba_sav, kind |-> "file"],
      [side |-> "sd", name |-> Name_a_sav, kind |-> "file"],
      [side |-> "sd", name |-> Name_a_b_sav, kind |-> "file"],
      [side |-> "sd", name |-> Name_b_GBA_SAV, kind |-> "file"],
      [side |-> "sd", name |-> Name_meta_a_sav, kind |-> "file"],
      [side |-> "sd", name |-> Name_x_gba_sav, kind |-> "dir"] }

\* Entries the local directory may hold.
LocalPool ==
    { [side |-> "local", name |-> Name_a_srm, kind |-> "file"],
      [side |-> "local", name |-> Name_A_SRM, kind |-> "file"],
      [side |-> "local", name |-> Name_b_srm, kind |-> "file"],
      [side |-> "local", name |-> Name_a_b_srm, kind |-> "file"],
      [side |-> "local", name |-> Name_x_srm, kind |-> "nostat"] }

\* Entries of a directory scanned on its own.
FnPool ==
    { [side |-> "sd", name |-> Name_a_gba_sav, kind |-> "file"],
      [side |-> "sd", name |-> Name_A_gba_sav, kind |-> "file"],
      [side |-> "sd", name |-> Name_a_sav, kind |-> "file"],
      [side |-> "sd", name |-> Name_a_b_gba_sav, kind |-> "file"],
      [side |-> "sd", name |-> Name_b_GBA_SAV, kind |-> "file"],
      [side |-> "sd", name |-> Name_meta_a_sav, kind |-> "file"],
      [side |-> "sd", name |-> Name_x_gba_sav, kind |-> "dir"],
      [side |-> "sd", name |-> Name_a_srm, kind |-> "file"],
      [side |-> "sd", name |-> Name_meta_a_srm, kind |-> "file"],
      [side |-> "sd", name |-> Name_x_srm, kind |-> "nostat"],
      [side |-> "sd", name |-> Name_a_txt, kind |-> "file"],
      [side |-> "sd", name |-> Name_dot_sav, kind |-> "file"] }

\* Entries of the two directories scanned and compared.
CmpPool ==
    { [side |-> sd, name |-> n, kind |-> "file"] :
        sd \in {"sd", "local"},
        n \in {Name_a_gba_sav, Name_a_sav, Name_b_GBA_SAV, Name_a_srm, Name_b_srm} }

NoDirectory == [exists |-> FALSE, files |-> EmptyDict]

\* The directory of side sd holding those of the entries E that are on that
\* side, with the mtimes mt.
MkDir(sd, E, mt) ==
    [exists |-> TRUE,
     files |-> [n \in {e.name : e \in {x \in E : x.side = sd}} |->
                   LET e == CHOOSE x \in E : x.side = sd /\ x.name = n
                   IN  [mtime |-> mt[e], kind |-> e.kind]]]

\* The subsets of S of at most n elements.
RECURSIVE SubsetsUpTo(_, _)
SubsetsUpTo(S, n) ==
    IF n <= 0 THEN {{}}
    ELSE LET P == SubsetsUpTo(S, n - 1)
         IN  P \cup { X \cup {e} : X \in P, e \in S }

\* ------------------------------------------------------------------------
\* The program: main, the prompt, the two sync operations
\* ------------------------------------------------------------------------
NoCall == [op |-> "none"]

\* The program starts on two directories of at most MaxFiles entries
\* together, the files written at MaxInitTime at the latest; or with the card
\* directory, the local directory or the scripts directory missing.
Init ==
    /\ scripts_dir \in BOOLEAN
    /\ \E missing \in {"none", "sd", "local"} :
       \E E \in SubsetsUpTo(SdPool \cup LocalPool, MaxFiles) :
         /\ (missing # "none" \/ ~scripts_dir) => Cardinality(E) <= 1
         /\ \A e \in E : e.side # missing
         /\ \E mt \in [E -> 0..MaxInitTime] :
              fs = [sd |-> IF missing = "sd" THEN NoDirectory ELSE MkDir("sd", E, mt),
                    local |-> IF missing = "local" THEN NoDirectory
                              ELSE MkDir("local", E, mt)]
    /\ clock = MaxInitTime
    /\ pc = "start"
    /\ sd_info = EmptyDict
    /\ local_info = EmptyDict
    /\ differences = NoDifferences
    /\ direction = "none"
    /\ phase = "none"
    /\ idx = 0
    /\ processed_count = 0
    /\ calls = <<>>
    /\ outcomes = <<>>
    /\ history = <<>>
    /\ arg = NoCall
    /\ ret = NoCall

\* main: the card saves directory is missing; "Exiting."
MainNoCard ==
    /\ pc = "start"
    /\ ~fs[SD_CARD_SAVES_PATH].exists
    /\ pc' = "exit"
    /\ history' = Append(history, [op |-> "error", clean |-> TRUE])
    /\ UNCHANGED <<fs, scripts_dir, clock, runVars, fnVars>>

\* main: the local saves directory is missing and os.makedirs fails.
MainNoLocalDir ==
    /\ pc = "start"
    /\ fs[SD_CARD_SAVES_PATH].exists
    /\ ~fs[LOCAL_SAVES_PATH].exists
    /\ pc' = "exit"
    /\ history' = Append(history, [op |-> "error", clean |-> TRUE])
    /\ UNCHANGED <<fs, scripts_dir, clock, runVars, fnVars>>

\* main: the directory of the conversion scripts is missing.
MainNoScripts ==
    /\ pc = "start"
    /\ fs[SD_CARD_SAVES_PATH].exists
    /\ ~scripts_dir
    /\ pc' = "exit"
    /\ fs' = [fs EXCEPT ![LOCAL_SAVES_PATH].exists = TRUE]
    /\ history' = Append(history, [op |-> "error", clean |-> TRUE])
    /\ UNCHANGED <<scripts_dir, clock, runVars, fnVars>>

\* main up to the prompt: the local directory is created when missing, both
\* directories are scanned, compared, and the differences printed; without a
\* difference the program exits.
MainScan ==
    /\ pc = "start"
    /\ fs[SD_CARD_SAVES_PATH].exists
    /\ scripts_dir
    /\ LET fs1 == [fs EXCEPT ![LOCAL_SAVES_PATH].exists = TRUE]
       IN  \E ls \in Listings(DOMAIN fs1[SD_CARD_SAVES_PATH].files),
              ll \in Listings(DOMAIN fs1[LOCAL_SAVES_PATH].files) :
             LET si == get_file_info(SD_CARD_SAVES_PATH, fs1[SD_CARD_SAVES_PATH],
                                     <<DotSav>>, ls)
                 li == get_file_info(LOCAL_SAVES_PATH, fs1[LOCAL_SAVES_PATH],
                                     <<DotSrm>>, ll)
                 df == compare_folders(si, li)
             IN  /\ fs' = fs1
                 /\ sd_info' = si
                 /\ local_info' = li
                 /\ differences' = df
                 /\ IF print_differences(df)
                    THEN pc' = "prompt" /\ history' = history
                    ELSE /\ pc' = "exit"
                         /\ history' = Append(history, [op |-> "nodiff", clean |-> TRUE])
    /\ UNCHANGED <<scripts_dir, clock, direction, phase, idx, processed_count, calls, outcomes, fnVars>>

\* The list of the first loop of a sync operation.
OnlyList(dirn, df) == IF dirn = "s2l" THEN df.sd_only ELSE df.local_only

\* Every conversion of the operation succeeded.
AllOk(cs) == \A k \in 1..Len(cs) : cs[k].result = "ok"

\* The position at which a sync operation starts.
FirstPos(dirn, df) ==
    IF Len(OnlyList(dirn, df)) > 0 THEN [pc |-> "sync", phase |-> "only", idx |-> 1]
    ELSE IF Len(df.conflicts) > 0 THEN [pc |-> "sync", phase |-> "conflicts", idx |-> 1]
    ELSE [pc |-> "exit", phase |-> "none", idx |-> 0]

\* The position after the item at (ph, i).
NextPos(dirn, df, ph, i) ==
    IF ph = "only" /\ i < Len(OnlyList(dirn, df))
    THEN [pc |-> "sync", phase |-> "only", idx |-> i + 1]
    ELSE IF ph = "only" /\ Len(df.conflicts) > 0
    THEN [pc |-> "sync", phase |-> "conflicts", idx |-> 1]
    ELSE IF ph = "conflicts" /\ i < Len(df.conflicts)
    THEN [pc |-> "sync", phase |-> "conflicts", idx |-> i + 1]
    ELSE [pc |-> "exit", phase |-> "none", idx |-> 0]

\* Move to position pos; the operation is complete when pos leaves the loops.
GoTo(pos, dirn, cs) ==
    /\ pc' = pos.pc
    /\ phase' = pos.phase
    /\ idx' = pos.idx
    /\ history' = IF pos.pc = "exit"
                  THEN Append(history, [op |-> dirn, clean |-> AllOk(cs)])
                  ELSE history

\* The sync operation dirn starts.
StartSync(dirn) ==
    /\ direction' = dirn
    /\ processed_count' = 0
    /\ GoTo(FirstPos(dirn, differences), dirn, <<>>)
    /\ UNCHANGED <<fs, scripts_dir, clock, sd_info, local_info, differences, calls, outcomes, fnVars>>

\* The operator answers 1: sync_sd_to_local.
ChooseSdToLocal ==
    /\ pc = "prompt"
    /\ StartSync("s2l")

\* The operator answers 2: sync_local_to_sd.
ChooseLocalToSd ==
    /\ pc = "prompt"
    /\ StartSync("l2s")

\* The operator answers 3.
ChooseExit ==
    /\ pc = "prompt"
    /\ pc' = "exit"
    /\ history' = Append(history, [op |-> "quit", clean |-> TRUE])
    /\ UNCHANGED <<fs, scripts_dir, clock, runVars, fnVars>>

\* Any other answer: "Invalid choice", and the prompt again.
InvalidChoice ==
    /\ pc = "prompt"
    /\ UNCHANGED vars

\* ConvertItem without the try/except: an exception ends the operation.
ConvertItem_Abort(list, script, input, output) ==
    \E result \in ConversionResults, d \in 0..1 :
        /\ CanMeet(fs, output, result)
        /\ d = 1 => Writes(result)
        /\ clock + d <= MaxTime
        /\ clock' = clock + d
        /\ fs' = run_conversion_script(fs, output, result, clock + d)
        /\ calls' = Append(calls, [script |-> script, input |-> input,
                                   output |-> output, result |-> result,
                                   list |-> list, index |-> idx])
        /\ processed_count' = IF Raises(result) THEN processed_count
                              ELSE processed_count + 1
        /\ outcomes' = Append(outcomes,
                          [list |-> list, index |-> idx,
                           outcome |-> IF Raises(result) THEN "failed" ELSE "converted"])
        /\ GoTo(IF Raises(result) THEN [pc |-> "exit", phase |-> "none", idx |-> 0]
                ELSE NextPos(direction, differences, phase, idx), direction, calls')

\* One iteration that calls _run_conversion_script(script, input, output) and
\* counts the item when the call returns.
ConvertItem(list, script, input, output) ==
    \E result \in ConversionResults, d \in 0..1 :
        /\ CanMeet(fs, output, result)
        /\ d = 1 => Writes(result)
        /\ clock + d <= MaxTime
        /\ clock' = clock + d
        /\ fs' = run_conversion_script(fs, output, result, clock + d)
        /\ calls' = Append(calls, [script |-> script, input |-> input,
                                   output |-> output, result |-> result,
                                   list |-> list, index |-> idx])
        /\ processed_count' = IF Raises(result) THEN processed_count
                              ELSE processed_count + 1
        /\ outcomes' = Append(outcomes,
                          [list |-> list, index |-> idx,
                           outcome |-> IF Raises(result) THEN "failed" ELSE "converted"])
        /\ GoTo(NextPos(direction, differences, phase, idx), direction, calls')

\* One iteration that skips its conflict.
SkipItem(conflict) ==
    /\ outcomes' = Append(outcomes,
                      [list |-> "conflicts", index |-> idx,
                       outcome |-> ConflictOutcome(FALSE, conflict, "ok")])
    /\ GoTo(NextPos(direction, differences, phase, idx), direction, calls)
    /\ UNCHANGED <<fs, clock, calls, processed_count>>

\* sync_sd_to_local: one iteration of the loop over differences['sd_only'].
SdToLocalOnly ==
    /\ pc = "sync" /\ direction = "s2l" /\ phase = "only"
    /\ LET sd_file == differences.sd_only[idx]
       IN  ConvertItem("sd_only", "sav-to-srm.py", sd_file.path, S2LOnlyTarget(sd_file))
    /\ UNCHANGED <<scripts_dir, sd_info, local_info, differences, direction, fnVars>>

\* sync_sd_to_local: one iteration of the loop over differences['conflicts'].
SdToLocalConflict ==
    /\ pc = "sync" /\ direction = "s2l" /\ phase = "conflicts"
    /\ LET conflict == differences.conflicts[idx]
       IN  IF S2LConverts(conflict)
           THEN ConvertItem("conflicts", "sav-to-srm.py", conflict.sd.path,
                            S2LConflictTarget(conflict))
           ELSE SkipItem(conflict)
    /\ UNCHANGED <<scripts_dir, sd_info, local_info, differences, direction, fnVars>>

\* sync_local_to_sd: one iteration of the loop over differences['local_only'].
LocalToSdOnly ==
    /\ pc = "sync" /\ direction = "l2s" /\ phase = "only"
    /\ LET local_file == differences.local_only[idx]
       IN  ConvertItem("local_only", "srm-to-sav.py", local_file.path,
                       L2SOnlyTarget(local_file))
    /\ UNCHANGED <<scripts_dir, sd_info, local_info, differences, direction, fnVars>>

\* sync_local_to_sd: one iteration of the loop over differences['conflicts'].
LocalToSdConflict ==
    /\ pc = "sync" /\ direction = "l2s" /\ phase = "conflicts"
    /\ LET conflict == differences.conflicts[idx]
       IN  IF L2SConverts(conflict)
           THEN ConvertItem("conflicts", "srm-to-sav.py", conflict.local.path,
                            L2SConflictTarget(conflict))
           ELSE SkipItem(conflict)
    /\ UNCHANGED <<scripts_dir, sd_info, local_info, differences, direction, fnVars>>

\* The operator runs the program again: a fresh process.
Rerun ==
    /\ pc = "exit"
    /\ Len(history) < MaxRuns
    /\ pc' = "start"
    /\ sd_info' = EmptyDict
    /\ local_info' = EmptyDict
    /\ differences' = NoDifferences
    /\ direction' = "none"
    /\ phase' = "none"
    /\ idx' = 0
    /\ processed_count' = 0
    /\ calls' = <<>>
    /\ outcomes' = <<>>
    /\ UNCHANGED <<fs, scripts_dir, clock, history, fnVars>>

Next ==
    \/ MainNoCard
    \/ MainNoLocalDir
    \/ MainNoScripts
    \/ MainScan
    \/ ChooseSdToLocal
    \/ ChooseLocalToSd
    \/ ChooseExit
    \/ InvalidChoice
    \/ SdToLocalOnly
    \/ SdToLocalConflict
    \/ LocalToSdOnly
    \/ LocalToSdConflict

\* One run of the program.
Spec == Init /\ [][Next]_vars

\* The program run again and again on the same directories.
NextRuns ==
    \/ Next
    \/ Rerun

SpecRuns == Init /\ [][NextRuns]_vars

\* ------------------------------------------------------------------------
\* The functions called on their own
\* ------------------------------------------------------------------------
DotSAV == <<".", "S", "A", "V">>

\* The extension lists given to get_file_info (<<>>: None, no filter).
FnExtLists == { <<>>, <<DotSav>>, <<DotSrm>>, <<DotSAV>>, <<DotSav, DotSrm>> }

\* The extension lists given to compare_folders' two scans.
CmpExtLists == { <<>>, <<DotSav>>, <<DotSrm>> }

\* A call of get_file_info on a directory of at most MaxScanFiles entries, or
\* on one that does not exist; or a call of compare_folders on the scans of two
\* directories of at most MaxCmpFiles entries together.
InitFn ==
    /\ fs = [sd |-> NoDirectory, local |-> NoDirectory]
    /\ scripts_dir = TRUE
    /\ clock = 0
    /\ pc = "fn"
    /\ sd_info = EmptyDict
    /\ local_info = EmptyDict
    /\ differences = NoDifferences
    /\ direction = "none"
    /\ phase = "none"
    /\ idx = 0
    /\ processed_count = 0
    /\ calls = <<>>
    /\ outcomes = <<>>
    /\ history = <<>>
    /\ \/ \E e \in FnExtLists :
            \/ arg = [op |-> "get_file_info", dir |-> NoDirectory, extensions |-> e]
            \/ \E E \in SubsetsUpTo(FnPool, MaxScanFiles) :
               \E mt \in [E -> 0..MaxInitTime] :
                 arg = [op |-> "get_file_info", dir |-> MkDir("sd", E, mt),
                        extensions |-> e]
       \/ \E E \in SubsetsUpTo(CmpPool, MaxCmpFiles) :
          \E mt \in [E -> 0..MaxInitTime] :
          \E ea \in CmpExtLists, eb \in CmpExtLists :
            arg = [op |-> "compare_folders",
                   sd_dir |-> MkDir("sd", E, mt), local_dir |-> MkDir("local", E, mt),
                   sd_extensions |-> ea, local_extensions |-> eb]
    /\ ret = NoCall

\* get_file_info(directory, extensions) returns.
CallGetFileInfo ==
    /\ arg.op = "get_file_info"
    /\ ret = NoCall
    /\ \E l \in Listings(DOMAIN arg.dir.files) :
         ret' = [op |-> "get_file_info",
                 files_info |-> get_file_info(SD_CARD_SAVES_PATH, arg.dir,
                                              arg.extensions, l)]
    /\ UNCHANGED <<fs, scripts_dir, clock, pc, runVars, history, arg>>

\* The two directories are scanned and compare_folders(sd_info, local_info)
\* returns.
CallCompareFolders ==
    /\ arg.op = "compare_folders"
    /\ ret = NoCall
    /\ \E la \in Listings(DOMAIN arg.sd_dir.files),
          lb \in Listings(DOMAIN arg.local_dir.files) :
         LET A == get_file_info(SD_CARD_SAVES_PATH, arg.sd_dir, arg.sd_extensions, la)
             B == get_file_info(LOCAL_SAVES_PATH, arg.local_dir, arg.local_extensions, lb)
         IN  /\ sd_info' = A
             /\ local_info' = B
             /\ differences' = compare_folders(A, B)
             /\ ret' = [op |-> "compare_folders"]
    /\ UNCHANGED <<fs, scripts_dir, clock, pc, direction, phase, idx,
                   processed_count, calls, outcomes, history, arg>>

NextFn ==
    \/ CallGetFileInfo
    \/ CallCompareFolders

SpecFn == InitFn /\ [][NextFn]_vars

\* ------------------------------------------------------------------------
\* Claims about compare_folders
\* ------------------------------------------------------------------------
\* compare_folders has returned `differences` for sd_info and local_info: main
\* is at the prompt or syncing, or has just exited for want of a difference, or
\* the function was called on its own.
Compared ==
    \/ pc \in {"prompt", "sync"}
    \/ /\ pc = "exit"
       /\ Len(history) > 0
       /\ history[Len(history)].op = "nodiff"
    \/ ret.op = "compare_folders"

\* The number of places of list at which x stands.
Count(list, x) == Cardinality({i \in 1..Len(list) : list[i] = x})

\* The number of conflict entries of key k.
CountConflict(df, k) ==
    Cardinality({i \in 1..Len(df.conflicts) : df.conflicts[i].basename = k})

InSdOnly(k) == k \in DOMAIN sd_info /\ Count(differences.sd_only, sd_info[k]) > 0
InLocalOnly(k) == k \in DOMAIN local_info /\ Count(differences.local_only, local_info[k]) > 0
InConflicts(k) == CountConflict(differences, k) > 0

\* The two records of k differ by more than 1.0 second or in their extension.
Differ(k) ==
    \/ sd_info[k].mtime - local_info[k].mtime > Tolerance
    \/ local_info[k].mtime - sd_info[k].mtime > Tolerance
    \/ sd_info[k].ext # local_info[k].ext

\* C1: compare_folders partitions the union of the keys: a key only in sd_info
\* stands once in sd_only, a key only in local_info once in local_only, a key
\* in both stands in conflicts (once, with its two records) exactly when the
\* mtimes differ by more than 1.0 second or the extensions differ, and
\* otherwise in no list; the lists hold nothing else and no key stands in two.
C1_Partition ==
    Compared =>
        /\ \A k \in (DOMAIN sd_info) \ (DOMAIN local_info) :
              /\ Count(differences.sd_only, sd_info[k]) = 1
              /\ ~InConflicts(k)
        /\ \A k \in (DOMAIN local_info) \ (DOMAIN sd_info) :
              /\ Count(differences.local_only, local_info[k]) = 1
              /\ ~InConflicts(k)
        /\ \A k \in (DOMAIN sd_info) \cap (DOMAIN local_info) :
              /\ ~InSdOnly(k)
              /\ ~InLocalOnly(k)
              /\ CountConflict(differences, k) = (IF Differ(k) THEN 1 ELSE 0)
        /\ Len(differences.sd_only) = Cardinality((DOMAIN sd_info) \ (DOMAIN local_info))
        /\ Len(differences.local_only) = Cardinality((DOMAIN local_info) \ (DOMAIN sd_info))
        /\ \A i \in 1..Len(differences.conflicts) :
              LET c == differences.conflicts[i]
              IN  /\ c.basename \in (DOMAIN sd_info) \cap (DOMAIN local_info)
                  /\ c.sd = sd_info[c.basename]
                  /\ c.local = local_info[c.basename]

\* C1 witness: a comparison in which a key of equal extensions and mtimes more
\* than 1.0 second apart is a conflict.
C1_Witness ==
    /\ ret.op = "compare_folders"
    /\ \E k \in (DOMAIN sd_info) \cap (DOMAIN local_info) :
          /\ sd_info[k].ext = local_info[k].ext
          /\ Abs(sd_info[k].mtime - local_info[k].mtime) > Tolerance
          /\ InConflicts(k)

\* A key in both snapshots, .sav on the card and .srm locally, the mtimes at
\* most 1.0 second apart but not equal (100 against 100.5).
SimilarSavSrm(k) ==
    /\ k \in (DOMAIN sd_info) \cap (DOMAIN local_info)
    /\ sd_info[k].ext = DotSav
    /\ local_info[k].ext = DotSrm
    /\ Abs(sd_info[k].mtime - local_info[k].mtime) <= Tolerance

\* C2 as stated: a .sav/.srm pair with mtimes at most 1.0 second apart is not
\* reported as a conflict.
C2_Original ==
    Compared => \A k \in DOMAIN sd_info : SimilarSavSrm(k) => ~InConflicts(k)

\* C2 amended: a .sav/.srm pair with mtimes at most 1.0 second apart is
\* reported as a conflict (the extensions differ), once and with both records.
C2_Amended ==
    Compared =>
        \A k \in DOMAIN sd_info :
            SimilarSavSrm(k) =>
                \E i \in 1..Len(differences.conflicts) :
                    /\ differences.conflicts[i] =
                          [basename |-> k, sd |-> sd_info[k], local |-> local_info[k]]
                    /\ CountConflict(differences, k) = 1

\* C2 witness: main has compared a .sav/.srm pair half a second apart.
C2_Witness ==
    /\ pc = "prompt"
    /\ \E k \in DOMAIN sd_info :
          /\ SimilarSavSrm(k)
          /\ Abs(sd_info[k].mtime - local_info[k].mtime) = 1

\* C4: compare_folders is symmetric under swapping its arguments: sd_only and
\* local_only are exchanged, and the conflicts are the same keys in the same
\* order with the 'sd' and 'local' records exchanged.
C4_Symmetric ==
    Compared =>
        LET swapped == compare_folders(local_info, sd_info)
        IN  /\ swapped.local_only = differences.sd_only
            /\ swapped.sd_only = differences.local_only
            /\ Len(swapped.conflicts) = Len(differences.conflicts)
            /\ \A i \in 1..Len(differences.conflicts) :
                  swapped.conflicts[i] =
                      [basename |-> differences.conflicts[i].basename,
                       sd |-> differences.conflicts[i].local,
                       local |-> differences.conflicts[i].sd]

\* C4 witness: a comparison with a conflict whose local record is the newer
\* by more than 1.0 second.
C4_Witness ==
    /\ ret.op = "compare_folders"
    /\ \E i \in 1..Len(differences.conflicts) :
          differences.conflicts[i].local.mtime - differences.conflicts[i].sd.mtime
              > Tolerance

\* ------------------------------------------------------------------------
\* Claims about get_file_info
\* ------------------------------------------------------------------------
\* The final extension of a file name, lower-cased.
FinalExt(filename) == Lower(splitext(filename)[2])

\* The extension is one of the allowed ones, compared without regard to case
\* (no list given: every extension is allowed).
Allowed(ext, extensions) ==
    extensions # <<>> => \E i \in 1..Len(extensions) : ext = Lower(extensions[i])

\* C8: every entry of a snapshot of get_file_info is a regular file of the
\* directory, whose name does not start with "._" and whose final extension is
\* an allowed one; a "._" file is in no snapshot; a directory that does not
\* exist gives the empty snapshot.
C8_SnapshotEntries ==
    ret.op = "get_file_info" =>
        /\ \A k \in DOMAIN ret.files_info :
              LET r == ret.files_info[k]
              IN  /\ r.path.name \in DOMAIN arg.dir.files
                  /\ arg.dir.files[r.path.name].kind = "file"
                  /\ r.mtime = arg.dir.files[r.path.name].mtime
                  /\ SubSeq(r.path.name, 1, 2) # MetaPrefix
                  /\ r.ext = FinalExt(r.path.name)
                  /\ Allowed(r.ext, arg.extensions)
        /\ \A n \in DOMAIN arg.dir.files :
              (Len(n) >= 2 /\ n[1] = "." /\ n[2] = "_") =>
                  \A k \in DOMAIN ret.files_info : ret.files_info[k].path.name # n
        /\ ~arg.dir.exists => ret.files_info = EmptyDict

\* C8 witness: a scan that returns an entry from a directory that also holds
\* a "._" file of an allowed extension.
C8_Witness ==
    /\ ret.op = "get_file_info"
    /\ ret.files_info # EmptyDict
    /\ arg.extensions # <<>>
    /\ \E n \in DOMAIN arg.dir.files :
          /\ SubSeq(n, 1, 2) = MetaPrefix
          /\ arg.dir.files[n].kind = "file"
          /\ Allowed(FinalExt(n), arg.extensions)

\* ------------------------------------------------------------------------
\* Claims about the sync operations
\* ------------------------------------------------------------------------
\* A sync operation is running or has just completed.
Syncing == direction \in {"s2l", "l2s"}

\* The saves directory a sync operation reads and the one it writes.
SourceDir(dirn) == IF dirn = "s2l" THEN "sd" ELSE "local"
TargetDir(dirn) == IF dirn = "s2l" THEN "local" ELSE "sd"

\* The source and the destination record of a conflict in direction dirn.
SourceRec(dirn, c) == IF dirn = "s2l" THEN c.sd ELSE c.local
TargetRec(dirn, c) == IF dirn = "s2l" THEN c.local ELSE c.sd

\* The calls made for item i of list.
CallsFor(list, i) == {j \in 1..Len(calls) : calls[j].list = list /\ calls[j].index = i}

\* The number of items visited so far in the first loop and in the second.
VisitedOnly ==
    IF phase = "only" THEN idx - 1 ELSE Len(OnlyList(direction, differences))
VisitedConflicts ==
    IF phase = "only" THEN 0
    ELSE IF phase = "conflicts" THEN idx - 1
    ELSE Len(differences.conflicts)

\* C3: after a clean sync_sd_to_local and a clean sync_local_to_sd, each on a
\* fresh scan, a further scan and comparison finds no difference.
C3_Idempotent ==
    ( /\ pc = "exit"
      /\ Len(history) = 2
      /\ history[1] = [op |-> "s2l", clean |-> TRUE]
      /\ history[2] = [op |-> "l2s", clean |-> TRUE] )
    => \A ls \in Listings(DOMAIN fs["sd"].files), ll \in Listings(DOMAIN fs["local"].files) :
          compare_folders(get_file_info("sd", fs["sd"], <<DotSav>>, ls),
                          get_file_info("local", fs["local"], <<DotSrm>>, ll))
              = NoDifferences

\* C5: a conflict one side of which is the newer is converted (one call, and
\* one processed item when the call returns) by the sync operation whose source
\* is the newer side, and left alone (no call, nothing counted) by the
\* opposite one; no conflict is converted by both operations.
C5_NewerSideConverts ==
    [][ (pc = "sync" /\ phase = "conflicts") =>
          LET c == differences.conflicts[idx]
              src == SourceRec(direction, c)
              dst == TargetRec(direction, c)
          IN  /\ src.mtime > dst.mtime =>
                    /\ Len(calls') = Len(calls) + 1
                    /\ calls'[Len(calls')].input = src.path
                    /\ calls'[Len(calls')].index = idx
                    /\ processed_count' = processed_count +
                          (IF calls'[Len(calls')].result = "ok" THEN 1 ELSE 0)
              /\ dst.mtime > src.mtime =>
                    /\ calls' = calls
                    /\ processed_count' = processed_count
                    /\ fs' = fs
              /\ ~(S2LConverts(c) /\ L2SConverts(c)) ]_vars

\* C5 witness: sync_local_to_sd has converted and counted a conflict whose
\* local file is the newer by more than 1.0 second.
C5_Witness ==
    /\ direction = "l2s"
    /\ processed_count = 1
    /\ \E j \in 1..VisitedConflicts :
          /\ differences.conflicts[j].local.mtime - differences.conflicts[j].sd.mtime
                > Tolerance
          /\ \E k \in CallsFor("conflicts", j) : calls[k].result = "ok"

\* The name without its last n characters.
DropLast(name, n) == SubSeq(name, 1, Len(name) - n)

\* C6: in direction X->Y every record of onlyInX visited so far has caused
\* exactly one call of the X->Y conversion, its path the input and the output
\* in Y's directory under Y's convention (<title>.srm locally, the title being
\* what precedes ".gba.sav" in a card name of that form; <title>.gba.sav on the
\* card); no call has a record of onlyInY as input; and processed_count is the
\* number of calls that succeeded.
C6_OnlyInSource ==
    Syncing =>
        /\ \A i \in 1..VisitedOnly :
              LET rec == OnlyList(direction, differences)[i]
                  list == IF direction = "s2l" THEN "sd_only" ELSE "local_only"
              IN  /\ Cardinality(CallsFor(list, i)) = 1
                  /\ \A j \in CallsFor(list, i) :
                        /\ calls[j].input = rec.path
                        /\ calls[j].output.dir = TargetDir(direction)
                        /\ IF direction = "s2l"
                           THEN /\ calls[j].script = "sav-to-srm.py"
                                /\ EndsWith(calls[j].output.name, DotSrm)
                                /\ Len(calls[j].output.name) > Len(DotSrm)
                                /\ StartsWith(rec.path.name, DropLast(calls[j].output.name, 4))
                                /\ EndsWith(Lower(rec.path.name), DotGba \o DotSav) =>
                                      calls[j].output.name = DropLast(rec.path.name, 8) \o DotSrm
                           ELSE /\ calls[j].script = "srm-to-sav.py"
                                /\ calls[j].output.name =
                                      DropLast(rec.path.name, 4) \o DotGba \o DotSav
        /\ \A j \in 1..Len(calls) :
              /\ calls[j].input.dir = SourceDir(direction)
              /\ \A i \in 1..Len(OnlyList(IF direction = "s2l" THEN "l2s" ELSE "s2l",
                                          differences)) :
                    calls[j].input #
                        OnlyList(IF direction = "s2l" THEN "l2s" ELSE "s2l", differences)[i].path
        /\ processed_count = Cardinality({j \in 1..Len(calls) : calls[j].result = "ok"})

\* C6 witness: sync_sd_to_local has converted a card-only "<title>.gba.sav"
\* while a local-only file stands in the DifferenceSet.
C6_Witness ==
    /\ direction = "s2l"
    /\ differences.local_only # <<>>
    /\ processed_count = 1
    /\ \E j \in 1..Len(calls) :
          /\ calls[j].list = "sd_only"
          /\ calls[j].result = "ok"
          /\ EndsWith(Lower(calls[j].input.name), DotGba \o DotSav)

\* The item visited at place j of a sync operation: the items of onlyInX in
\* order, then the conflicts in order.
ItemAt(j) ==
    LET n == Len(OnlyList(direction, differences))
    IN  IF j <= n
        THEN [list |-> IF direction = "s2l" THEN "sd_only" ELSE "local_only", index |-> j]
        ELSE [list |-> "conflicts", index |-> j - n]

\* C7: a failed conversion does not abort the batch: the items visited are the
\* items of onlyInX and then the conflicts, in order, each with one outcome;
\* when the operation completes every item has been visited; and
\* processed_count is the number of conversions that succeeded.
C7_NoAbort ==
    Syncing =>
        /\ Len(outcomes) = VisitedOnly + VisitedConflicts
        /\ \A j \in 1..Len(outcomes) :
              /\ outcomes[j].list = ItemAt(j).list
              /\ outcomes[j].index = ItemAt(j).index
              /\ outcomes[j].outcome \in
                    {"converted", "failed", "skipped_similar", "skipped_other"}
              /\ (outcomes[j].outcome = "converted") =
                    (\E k \in CallsFor(outcomes[j].list, outcomes[j].index) :
                        calls[k].result = "ok")
              /\ (outcomes[j].outcome = "failed") =
                    (\E k \in CallsFor(outcomes[j].list, outcomes[j].index) :
                        calls[k].result # "ok")
        /\ pc = "exit" =>
              Len(outcomes) = Len(OnlyList(direction, differences))
                                + Len(differences.conflicts)
        /\ processed_count =
              Cardinality({j \in 1..Len(outcomes) : outcomes[j].outcome = "converted"})

\* C7 witness: an operation has completed in which a conversion failed and a
\* later one succeeded and was counted.
C7_Witness ==
    /\ pc = "exit"
    /\ Syncing
    /\ processed_count = 1
    /\ \E i, j \in 1..Len(outcomes) :
          /\ i < j
          /\ outcomes[i].outcome = "failed"
          /\ outcomes[j].outcome = "converted"

\* C9 as stated: a conflict is converted X->Y only if X's mtime exceeds Y's
\* by more than 1.0 second.
C9_Original ==
    Syncing =>
        \A j \in 1..Len(calls) :
            calls[j].list = "conflicts" =>
                LET c == differences.conflicts[calls[j].index]
                IN  SourceRec(direction, c).mtime - TargetRec(direction, c).mtime > Tolerance

\* C9 amended: a conflict is converted X->Y exactly when X's mtime is greater
\* than Y's, by any amount; a conflict whose mtimes are equal is skipped in
\* both directions, one whose source is the older is skipped.
C9_Amended ==
    Syncing =>
        \A i \in 1..VisitedConflicts :
            LET c == differences.conflicts[i]
                src == SourceRec(direction, c)
                dst == TargetRec(direction, c)
            IN  /\ (CallsFor("conflicts", i) # {}) = (src.mtime > dst.mtime)
                /\ Cardinality(CallsFor("conflicts", i)) <= 1
                /\ \A j \in CallsFor("conflicts", i) : calls[j].input = src.path
                /\ src.mtime <= dst.mtime =>
                      \E j \in 1..Len(outcomes) :
                          /\ outcomes[j].list = "conflicts"
                          /\ outcomes[j].index = i
                          /\ outcomes[j].outcome \in {"skipped_similar", "skipped_other"}

\* C9 witness: a conflict whose source is newer by no more than 1.0 second has
\* been converted.
C9_Witness ==
    /\ Syncing
    /\ \E j \in 1..Len(calls) :
          /\ calls[j].list = "conflicts"
          /\ calls[j].result = "ok"
          /\ LET c == differences.conflicts[calls[j].index]
             IN  SourceRec(direction, c).mtime - TargetRec(direction, c).mtime
                     \in 1..Tolerance

\* The comparison keys get_file_info gives a directory holding the one file
\* `path`, scanned as main scans that side.
KeysOfFile(path) ==
    DOMAIN get_file_info(path.dir,
                         [exists |-> TRUE,
                          files |-> (path.name :> [mtime |-> 0, kind |-> "file"])],
                         IF path.dir = "sd" THEN <<DotSav>> ELSE <<DotSrm>>,
                         <<path.name>>)

\* C10: the output file name a sync operation builds has, once scanned on the
\* destination side, the comparison key of the source file.
C10_RoundTrip ==
    Syncing =>
        \A j \in 1..Len(calls) : KeysOfFile(calls[j].output) = KeysOfFile(calls[j].input)

\* C11: when a sync operation resolves a conflict by converting, the output
\* path it passes to the conversion is the path of the destination's existing
\* record for that key, so that the older file is overwritten and the
\* destination directory gets no second file with the same comparison key.
C11_OverwritesExisting ==
    Syncing =>
        \A j \in 1..Len(calls) :
            calls[j].list = "conflicts" =>
                calls[j].output =
                    TargetRec(direction, differences.conflicts[calls[j].index]).path

====
